---- MODULE Spec2Model ----
(***************************************************************************)
(* The file-selection and review-aggregation pipeline of                   *)
(* setup_code_review.py.  Two entry points drive the same kind of loop:    *)
(*   - main() of the generated pre_commit_code_check.py (CODE_CHECK_CONTENT)*)
(*     the strict commit gate, which exits the process;                    *)
(*   - analyze_repository(), the lenient scan, which only reports.         *)
(* The version-control backend, the file system and the completion         *)
(* backend are the environment: what they answer is drawn from small sets  *)
(* and stays the same for the whole behaviour.                             *)
(***************************************************************************)
EXTENDS Integers, Sequences, FiniteSets, TLC

VARIABLES
    mode,           \* "strict": main();  "lenient": analyze_repository()
    api_key,        \* os.getenv('OPENAI_API_KEY'): "set" or "absent" (None or '')
    client_rejects, \* whether OpenAI() itself raises on an absent credential
    staged,         \* answer of `git diff --cached --name-only`   [status, lines]
    untracked,      \* answer of `git ls-files --others ...`       [status, lines]
    fs_kind,        \* path -> what the file system holds there, once looked at
    backend,        \* path -> what reading + analysing it yields, once tried
    pc,             \* "start", "loop", "finish", "done"
    vcs_queries,    \* number of subprocess.run launches attempted in this run
    files_to_check, \* the list get_files_to_analyze() returned
    idx,            \* number of loop iterations completed
    reads,          \* paths opened by analyze_file, in order
    calls,          \* paths sent to client.chat.completions.create, in order
    all_scores,
    total_issues,
    failed,         \* main()'s flag; analyze_repository keeps none
    avg_reported,   \* the "Average project score" line was printed
    avg_score,      \* the printed value, in hundredths
    exited,         \* sys.exit was called, or an exception left the entry point
    exit_code,
    log,            \* the diagnostics printed, as a set of [msg, file]
    decision,       \* which exit of the entry point was taken
    runs,           \* which run of the pipeline this is (1, 2, ...)
    prev            \* how the previous run ended: [known, exited, exit_code, decision]

vars == << mode, api_key, client_rejects, staged, untracked, fs_kind, backend,
           pc, vcs_queries, files_to_check, idx, reads, calls,
           all_scores, total_issues, failed, avg_reported, avg_score,
           exited, exit_code, log, decision, runs, prev >>

env_vars == << mode, api_key, client_rejects, staged, untracked >>

(***************************************************************************)
(* Bounds and input sets                                                   *)
(***************************************************************************)
MaxLines == 2      \* lines one version-control query prints
MaxRuns == 2       \* runs of the pipeline against the same tree

\* Path names, and how each is spelled.
Paths == {"a.py", "b.ts", "c.js", "d.pyc"}

Spelling(p) ==
    CASE p = "a.py"  -> <<"a", ".", "p", "y">>
      [] p = "b.ts"  -> <<"b", ".", "t", "s">>
      [] p = "c.js"  -> <<"c", ".", "j", "s">>
      [] p = "d.pyc" -> <<"d", ".", "p", "y", "c">>

\* AnalysisResult values the backend may return: (passed, code_quality_score).
Results ==
    { [passed |-> TRUE,  code_quality_score |-> 90],
      [passed |-> TRUE,  code_quality_score |-> 85],
      [passed |-> TRUE,  code_quality_score |-> 70],
      [passed |-> TRUE,  code_quality_score |-> 60],
      [passed |-> FALSE, code_quality_score |-> 90],
      [passed |-> FALSE, code_quality_score |-> 60] }

PathRank(p) ==
    CASE p = "a.py" -> 1 [] p = "b.ts" -> 2 [] p = "c.js" -> 3 [] p = "d.pyc" -> 4

NoFile == "-"

(***************************************************************************)
(* Helpers                                                                 *)
(***************************************************************************)
Range(s) == {s[i] : i \in DOMAIN s}

SeqsUpTo(S, n) == UNION {[1..k -> S] : k \in 0..n}

\* The orders in which a set can be iterated.
Orders(S) == {s \in [1..Cardinality(S) -> S] : Range(s) = S}

RECURSIVE Sum(_)
Sum(s) == IF s = <<>> THEN 0 ELSE Head(s) + Sum(Tail(s))

\* str.endswith(suffix)
EndsWith(s, suffix) ==
    /\ Len(s) >= Len(suffix)
    /\ SubSeq(s, Len(s) - Len(suffix) + 1, Len(s)) = suffix

\* The tuple main()'s get_files_to_analyze passes to endswith.
BaselineExtensions ==
    { <<".", "p", "y">>, <<".", "t", "s">>, <<".", "m", "j", "s">> }

\* The tuple the installer's get_files_to_analyze passes to endswith.
ExtendedExtensions ==
    BaselineExtensions \cup
    { <<".", "j", "s">>, <<".", "s", "q", "l">>, <<".", "c", "s", "s">>,
      <<".", "h", "t", "m", "l">>, <<".", "i", "p", "y", "n", "b">> }

Extensions == IF mode = "strict" THEN BaselineExtensions ELSE ExtendedExtensions

\* file.endswith((...)) with a tuple: any of the suffixes.
HasAllowedExtension(file, exts) ==
    \E e \in exts : EndsWith(Spelling(file), e)

Kinds == {"file", "dir", "missing"}

\* os.path.exists / os.path.isfile of what the file system holds.
PathExists(kind) == kind \in {"file", "dir"}
PathIsFile(kind) == kind = "file"

\* IsEligible without the os.path.isfile test.
IsEligibleIfExists(file, exts, kind) ==
    /\ HasAllowedExtension(file, exts)
    /\ PathExists(kind)

\* The test of the filter loop.
IsEligible(file, exts, kind) ==
    /\ HasAllowedExtension(file, exts)
    /\ PathExists(kind)
    /\ PathIsFile(kind)

\* Iterations without set(...): the concatenated list itself is iterated.
IterationsOfList(staged_files, untracked_files) ==
    {staged_files \o untracked_files}

\* all_files = set(staged_files + untracked_files), as the sequences in which
\* `for file in all_files` may yield it: every element once, in any order
\* (the iteration order of a set of str changes with the hash seed).
Iterations(staged_files, untracked_files) ==
    Orders(Range(staged_files \o untracked_files))

\* The statuses of a query: its exit status, when it could be launched.
Statuses == {"exit_0", "exit_nonzero", "not_launched"}

\* subprocess.run raises only when the command cannot be launched: without
\* check=True a non-zero exit status is not an exception.
QueryRaises(answer) == answer.status = "not_launched"

GetFilesRaises == QueryRaises(staged) \/ QueryRaises(untracked)

\* What the file system may answer for the paths the filter looks at: what
\* it answered before for a path already looked at, anything for the others.
\* `and` short-circuits: a path without an allowed extension is not looked at.
KindChoices(files, exts) ==
    LET looked == {p \in files : HasAllowedExtension(p, exts) /\ fs_kind[p] = "unknown"}
    IN  {[p \in Paths |-> IF p \in looked THEN c[p] ELSE fs_kind[p]] :
            c \in [looked -> Kinds]}

\* The filter loop: valid_files.append(file) for each file the iteration
\* yields that passes the test.
RECURSIVE FilterFiles(_, _, _)
FilterFiles(iteration, exts, kinds) ==
    IF iteration = <<>> THEN <<>>
    ELSE LET file == Head(iteration)
             rest == FilterFiles(Tail(iteration), exts, kinds)
         IN  IF IsEligible(file, exts, kinds[file])
             THEN <<file>> \o rest
             ELSE rest

Msg(m, f) == [msg |-> m, file |-> f]

\* What get_files_to_analyze prints.
GetFilesLog(result) ==
    IF GetFilesRaises THEN {Msg("error_getting_files", NoFile)}
    ELSE IF result = <<>> THEN {Msg("no_files_hint", NoFile)}
    ELSE {}

\* Launches attempted by get_files_to_analyze: the second query is not
\* launched when the first launch raised.
GetFilesQueries == IF QueryRaises(staged) THEN 1 ELSE 2

(***************************************************************************)
(* The completion backend and the per-file step                            *)
(***************************************************************************)
Unknown == [kind |-> "unknown", passed |-> FALSE, code_quality_score |-> 0]

Failure(k) == [kind |-> k, passed |-> FALSE, code_quality_score |-> 0]

\* What trying to read and analyse one file may yield:
\*   "vanished"      the path no longer exists when the loop reaches it
\*   "unreadable"    open()/read() raises (permissions, not UTF-8)
\*   "backend_error" the completion call raises (network, validation)
\*   "result"        an AnalysisResult; its issues are one issue of that file
Outcomes ==
    {Failure("vanished"), Failure("unreadable"), Failure("backend_error")} \cup
    {[kind |-> "result", passed |-> r.passed,
      code_quality_score |-> r.code_quality_score] : r \in Results}

\* Unchanged tree and backend: a file tried before yields what it yielded.
OutcomeChoices(file) ==
    IF backend[file] = Unknown THEN Outcomes ELSE {backend[file]}

Issues(file) == << [file_path |-> file] >>

THRESHOLD == 70

\* GateFails without the score test.
GateFailsOnVerdictOnly(result) == ~result.passed

\* not result.passed or result.code_quality_score < 70
GateFails(result) ==
    ~result.passed \/ result.code_quality_score < THRESHOLD

\* open(file_path) ... f.read() raises
ReadRaises(outcome) == outcome.kind \in {"vanished", "unreadable"}

\* analyze_file raises: the read, or the completion call
AnalyzeRaises(outcome) == outcome.kind # "result"

\* the paths analyze_file opened / sent to the backend, after one more call
ReadsAfter(file) == Append(reads, file)
CallsAfter(file, outcome) ==
    IF ReadRaises(outcome) THEN calls ELSE Append(calls, file)

\* Average dividing by the number of files instead of the number of scores.
AverageOverFiles(scores) ==
    LET total == 100 * Sum(scores)
        n == Len(files_to_check)
        q == total \div n
        r == total % n
    IN  IF 2 * r > n THEN q + 1
        ELSE IF 2 * r < n THEN q
        ELSE IF q % 2 = 0 THEN q ELSE q + 1

\* f"{avg_score:.2f}" of sum(all_scores) / len(all_scores), in hundredths:
\* the quotient rounded to two decimals, a tie going to the even digit.
Average(scores) ==
    LET total == 100 * Sum(scores)
        n == Len(scores)
        q == total \div n
        r == total % n
    IN  IF 2 * r > n THEN q + 1
        ELSE IF 2 * r < n THEN q
        ELSE IF q % 2 = 0 THEN q ELSE q + 1

\* the guard of the average: len(all_scores) > 0 / if all_scores
HasScores(scores) == Len(scores) > 0

(***************************************************************************)
(* Initial states                                                          *)
(***************************************************************************)
\* A failed query: a non-zero exit status (nothing on stdout), or a command
\* that could not be launched.
FailedAnswers ==
    {[status |-> "exit_nonzero", lines |-> <<>>],
     [status |-> "not_launched", lines |-> <<>>]}

\* Any lines on stdout, repeated paths included (listed in path order: the
\* order of the lines is lost in set(...)).
Answers ==
    {[status |-> "exit_0", lines |-> l] :
        l \in {s \in SeqsUpTo(Paths, MaxLines) :
                  \A i, j \in DOMAIN s : i < j => PathRank(s[i]) <= PathRank(s[j])}}
    \cup FailedAnswers

\* What git prints: each path once, in path order.
SortedLines(S) ==
    CHOOSE s \in Orders(S) :
        \A i, j \in DOMAIN s : i < j => PathRank(s[i]) < PathRank(s[j])

GitAnswers ==
    {[status |-> "exit_0", lines |-> SortedLines(S)] :
        S \in {T \in SUBSET Paths : Cardinality(T) <= MaxLines}} \cup
    FailedAnswers

NoAnswer == [status |-> "exit_0", lines |-> <<>>]

NoPrev == [known |-> FALSE, exited |-> FALSE, exit_code |-> 0, decision |-> "NONE"]

\* The state of one run before its entry point is called.
RunInit ==
    /\ pc = "start"
    /\ vcs_queries = 0
    /\ files_to_check = <<>>
    /\ idx = 0
    /\ reads = <<>>
    /\ calls = <<>>
    /\ all_scores = <<>>
    /\ total_issues = <<>>
    /\ failed = FALSE
    /\ avg_reported = FALSE
    /\ avg_score = 0
    /\ exited = FALSE
    /\ exit_code = 0
    /\ log = {}
    /\ decision = "NONE"

EnvInit(answers) ==
    /\ mode \in {"strict", "lenient"}
    /\ api_key \in {"set", "absent"}
    /\ client_rejects \in BOOLEAN
    \* the constructor is reached with an absent credential only by the scan
    /\ client_rejects => (mode = "lenient" /\ api_key = "absent")
    /\ staged \in answers
    /\ untracked \in answers
    \* the second query is not launched when the first launch raised
    /\ QueryRaises(staged) => untracked = NoAnswer
    /\ fs_kind = [p \in Paths |-> "unknown"]
    /\ backend = [p \in Paths |-> Unknown]

\* The pipeline on a tree as git reports it.
Init ==
    /\ EnvInit(GitAnswers)
    /\ RunInit
    /\ runs = 1
    /\ prev = NoPrev

\* File discovery on any query output.
InitFiles ==
    /\ EnvInit(Answers)
    /\ api_key = "set"
    /\ RunInit
    /\ runs = 1
    /\ prev = NoPrev

\* Repeated runs, on trees whose changes are all staged.
InitTwice ==
    /\ Init
    /\ untracked = NoAnswer

(***************************************************************************)
(* main() of the generated pre_commit_code_check.py: the strict gate       *)
(***************************************************************************)
\* sys.exit(code) with the message printed before it
Exit(code, why, messages) ==
    /\ pc' = "done"
    /\ exited' = TRUE
    /\ exit_code' = code
    /\ decision' = why
    /\ log' = log \cup messages

\* if not api_key
CredentialMissing == api_key = "absent"

\* Lines 154-171: the credential check, the client, the discovery, the
\* early exit on an empty list.
MainStart ==
    /\ pc = "start"
    /\ mode = "strict"
    /\ IF CredentialMissing
       THEN /\ Exit(1, "NO_CREDENTIAL", {Msg("no_credential", NoFile)})
            /\ UNCHANGED << fs_kind, vcs_queries, files_to_check >>
       ELSE \E it \in Iterations(staged.lines, untracked.lines) :
            \E kinds \in KindChoices(Range(it), Extensions) :
              LET result == IF GetFilesRaises THEN <<>>
                            ELSE FilterFiles(it, Extensions, kinds)
              IN  /\ fs_kind' = IF GetFilesRaises THEN fs_kind ELSE kinds
                  /\ vcs_queries' = vcs_queries + GetFilesQueries
                  /\ files_to_check' = result
                  /\ IF result = <<>>
                     THEN Exit(0, "NOTHING_TO_DO",
                               GetFilesLog(result) \cup {Msg("no_files_found", NoFile)})
                     ELSE /\ pc' = "loop"
                          /\ log' = log \cup GetFilesLog(result)
                          /\ UNCHANGED << exited, exit_code, decision >>
    /\ UNCHANGED << env_vars, backend, idx, reads, calls, all_scores,
                    total_issues, failed, avg_reported, avg_score, runs, prev >>

\* StrictOnError going on to the next file instead of exiting.
StrictOnErrorContinue(file_path) ==
    /\ log' = log \cup {Msg("error_parsing", file_path)}
    /\ idx' = idx + 1
    /\ UNCHANGED << pc, exited, exit_code, decision, all_scores, total_issues,
                    failed >>

\* StrictOnError leaving the loop (break) instead of exiting.
StrictOnErrorBreak(file_path) ==
    /\ log' = log \cup {Msg("error_parsing", file_path)}
    /\ idx' = Len(files_to_check)
    /\ UNCHANGED << pc, exited, exit_code, decision, all_scores, total_issues,
                    failed >>

\* Lines 203-205: except Exception -> print, sys.exit(1).
StrictOnError(file_path) ==
    /\ Exit(1, "ERROR", {Msg("error_parsing", file_path)})
    /\ UNCHANGED << idx, all_scores, total_issues, failed >>

\* Lines 173-205: one iteration of the loop over files_to_check.
MainIter ==
    /\ pc = "loop"
    /\ mode = "strict"
    /\ idx < Len(files_to_check)
    /\ LET file_path == files_to_check[idx + 1]
       IN  \E result \in OutcomeChoices(file_path) :
             /\ backend' = [backend EXCEPT ![file_path] = result]
             /\ reads' = ReadsAfter(file_path)
             /\ calls' = CallsAfter(file_path, result)
             /\ IF AnalyzeRaises(result)
                THEN StrictOnError(file_path)
                ELSE /\ all_scores' = Append(all_scores, result.code_quality_score)
                     /\ failed' = (failed \/ GateFails(result))
                     /\ total_issues' = IF GateFails(result)
                                        THEN total_issues \o Issues(file_path)
                                        ELSE total_issues
                     /\ log' = IF GateFails(result)
                               THEN log \cup {Msg("problems", file_path)}
                               ELSE log
                     /\ idx' = idx + 1
                     /\ UNCHANGED << pc, exited, exit_code, decision >>
    /\ UNCHANGED << env_vars, fs_kind, vcs_queries, files_to_check,
                    avg_reported, avg_score, runs, prev >>

\* Lines 207-217: the average and the verdict.
MainFinish ==
    /\ pc = "loop"
    /\ mode = "strict"
    /\ idx = Len(files_to_check)
    /\ avg_reported' = HasScores(all_scores)
    /\ avg_score' = IF HasScores(all_scores) THEN Average(all_scores) ELSE avg_score
    /\ IF failed
       THEN Exit(1, "FAIL", {Msg("review_failed", NoFile)})
       ELSE Exit(0, "PASS", {Msg("all_passed", NoFile)})
    /\ UNCHANGED << env_vars, fs_kind, backend, vcs_queries, files_to_check, idx,
                    reads, calls, all_scores, total_issues, failed, runs, prev >>

(***************************************************************************)
(* analyze_repository(): the lenient scan                                  *)
(***************************************************************************)
\* return / the end of the function: no exit signal
Return(why, messages) ==
    /\ pc' = "done"
    /\ decision' = why
    /\ log' = log \cup messages
    /\ UNCHANGED << exited, exit_code >>

\* instructor.from_openai(OpenAI()) at line 405: no check of the credential
\* precedes it; whether the constructor raises on an absent credential is
\* the library's doing.
ClientRaises == api_key = "absent" /\ client_rejects

\* if not os.path.exists(full_path) at line 426
SkipsMissing(outcome) == outcome.kind = "vanished"

\* Lines 432-437: the status label asks git again, once when the path is
\* staged and twice otherwise.
StatusQueries(file_path) ==
    IF file_path \in Range(staged.lines) THEN 1 ELSE 2

\* Lines 405-421: the client, the discovery, the early return.  An exception
\* of the constructor leaves the function: the interpreter ends with 1.
RepoStart ==
    /\ pc = "start"
    /\ mode = "lenient"
    /\ IF ClientRaises
       THEN /\ Exit(1, "ERROR", {Msg("client_error", NoFile)})
            /\ UNCHANGED << fs_kind, vcs_queries, files_to_check >>
       ELSE \E it \in Iterations(staged.lines, untracked.lines) :
            \E kinds \in KindChoices(Range(it), Extensions) :
              LET result == IF GetFilesRaises THEN <<>>
                            ELSE FilterFiles(it, Extensions, kinds)
              IN  /\ fs_kind' = IF GetFilesRaises THEN fs_kind ELSE kinds
                  /\ vcs_queries' = vcs_queries + GetFilesQueries
                  /\ files_to_check' = result
                  /\ IF result = <<>>
                     THEN Return("NOTHING_TO_DO",
                                 GetFilesLog(result) \cup {Msg("no_files_to_scan", NoFile)})
                     ELSE /\ pc' = "loop"
                          /\ log' = log \cup GetFilesLog(result)
                          /\ UNCHANGED << exited, exit_code, decision >>
    /\ UNCHANGED << env_vars, backend, idx, reads, calls, all_scores,
                    total_issues, failed, avg_reported, avg_score, runs, prev >>

\* Lines 423-470: one iteration of the loop over files_to_check.  No
\* statement of this loop assigns a failed flag.
RepoIter ==
    /\ pc = "loop"
    /\ mode = "lenient"
    /\ idx < Len(files_to_check)
    /\ LET file_path == files_to_check[idx + 1]
       IN  \E result \in OutcomeChoices(file_path) :
             /\ backend' = [backend EXCEPT ![file_path] = result]
             /\ idx' = idx + 1
             /\ IF SkipsMissing(result)
                THEN /\ log' = log \cup {Msg("file_missing", file_path)}
                     /\ UNCHANGED << vcs_queries, reads, calls, all_scores,
                                     total_issues >>
                ELSE /\ vcs_queries' = vcs_queries + StatusQueries(file_path)
                     /\ reads' = ReadsAfter(file_path)
                     /\ calls' = CallsAfter(file_path, result)
                     /\ IF AnalyzeRaises(result)
                        THEN /\ log' = log \cup {Msg("error_parsing", file_path)}
                             /\ UNCHANGED << all_scores, total_issues >>
                        ELSE /\ all_scores' =
                                    Append(all_scores, result.code_quality_score)
                             /\ total_issues' = IF GateFails(result)
                                                THEN total_issues \o Issues(file_path)
                                                ELSE total_issues
                             /\ log' = IF GateFails(result)
                                       THEN log \cup {Msg("problems", file_path)}
                                       ELSE log
    /\ UNCHANGED << env_vars, fs_kind, pc, files_to_check, failed,
                    avg_reported, avg_score, exited, exit_code, decision,
                    runs, prev >>

\* Lines 472-474: the average; the function ends.
RepoFinish ==
    /\ pc = "loop"
    /\ mode = "lenient"
    /\ idx = Len(files_to_check)
    /\ avg_reported' = HasScores(all_scores)
    /\ avg_score' = IF HasScores(all_scores) THEN Average(all_scores) ELSE avg_score
    /\ Return("SCANNED", {})
    /\ UNCHANGED << env_vars, fs_kind, backend, vcs_queries, files_to_check, idx,
                    reads, calls, all_scores, total_issues, failed, runs, prev >>

(***************************************************************************)
(* A second run of the same entry point against the unchanged tree         *)
(***************************************************************************)
Rerun ==
    /\ pc = "done"
    /\ runs < MaxRuns
    /\ runs' = runs + 1
    /\ prev' = [known |-> TRUE, exited |-> exited, exit_code |-> exit_code,
                decision |-> decision]
    /\ pc' = "start"
    /\ vcs_queries' = 0
    /\ files_to_check' = <<>>
    /\ idx' = 0
    /\ reads' = <<>>
    /\ calls' = <<>>
    /\ all_scores' = <<>>
    /\ total_issues' = <<>>
    /\ failed' = FALSE
    /\ avg_reported' = FALSE
    /\ avg_score' = 0
    /\ exited' = FALSE
    /\ exit_code' = 0
    /\ log' = {}
    /\ decision' = "NONE"
    /\ UNCHANGED << env_vars, fs_kind, backend >>

Next ==
    \/ MainStart
    \/ MainIter
    \/ MainFinish
    \/ RepoStart
    \/ RepoIter
    \/ RepoFinish

Spec == Init /\ [][Next]_vars

NextFiles ==
    \/ MainStart
    \/ RepoStart

SpecFiles == InitFiles /\ [][NextFiles]_vars

NextTwice ==
    \/ Next
    \/ Rerun

SpecTwice == InitTwice /\ [][NextTwice]_vars

TypeOK ==
    /\ pc \in {"start", "loop", "done"}
    /\ staged.status \in Statuses /\ untracked.status \in Statuses
    /\ idx \in 0..Len(files_to_check)
    /\ exit_code \in {0, 1}
    /\ failed \in BOOLEAN

(***************************************************************************)
(* Properties                                                              *)
(***************************************************************************)
\* The files of this run the loop has dealt with: every one it iterated
\* over, and in the strict gate the one whose exception ended the run.
Handled == IF mode = "strict" THEN Len(reads) ELSE idx

OutcomeOf(i) == backend[files_to_check[i]]

GotResult(i) == OutcomeOf(i).kind = "result"

\* The file at position i was analysed and fails the gate.
FailsGate(i) ==
    /\ GotResult(i)
    /\ (OutcomeOf(i).passed = FALSE \/ OutcomeOf(i).code_quality_score < 70)

\* The file at position i was analysed and passes the gate.
PassesGate(i) ==
    /\ GotResult(i)
    /\ OutcomeOf(i).passed = TRUE
    /\ OutcomeOf(i).code_quality_score >= 70

RECURSIVE ScoresUpTo(_)
ScoresUpTo(k) ==
    IF k = 0 THEN <<>>
    ELSE IF GotResult(k)
         THEN Append(ScoresUpTo(k - 1), OutcomeOf(k).code_quality_score)
         ELSE ScoresUpTo(k - 1)

RECURSIVE IssuesUpTo(_)
IssuesUpTo(k) ==
    IF k = 0 THEN <<>>
    ELSE IF FailsGate(k)
         THEN Append(IssuesUpTo(k - 1), [file_path |-> files_to_check[k]])
         ELSE IssuesUpTo(k - 1)

NoRepeats(s) == \A i, j \in DOMAIN s : i # j => s[i] # s[j]

Listed == Range(staged.lines) \cup Range(untracked.lines)

\* C1: at every file boundary of the aggregation loop and at its end, in
\* the strict gate and in the lenient scan alike, failed is true exactly when
\* some processed file has passed = false or a score below 70.
C1_FailedIffSomeFileFailsGate ==
    pc \in {"loop", "done"} =>
        (failed <=> \E i \in 1..Handled : FailsGate(i))

\* C2 as stated: the commit gate ends with 0 exactly when the eligible set is
\* empty or every eligible file was analysed and passed, with 1 exactly when a
\* file failed gating or a fatal precondition occurred, with nothing else,
\* and always with 0 when no file is staged or untracked.
C2_ExitSignalAsStated ==
    (mode = "strict" /\ pc = "done") =>
        /\ exited /\ exit_code \in {0, 1}
        /\ exit_code = 0 <=>
              \/ files_to_check = <<>>
              \/ \A i \in 1..Len(files_to_check) : i <= Handled /\ PassesGate(i)
        /\ exit_code = 1 <=>
              \/ \E i \in 1..Handled : FailsGate(i)
              \/ api_key = "absent"
              \/ \E i \in 1..Handled : ~GotResult(i)
        /\ (staged.lines = <<>> /\ untracked.lines = <<>>) => exit_code = 0

\* C2 amended: with the credential present the gate ends with 0 exactly when
\* discovery returned no file or every returned file was analysed and passed
\* the gate, and with 1 exactly when a file failed the gate or raised; with
\* the credential absent it ends with 1 whatever the tree holds, an empty
\* tree included.  No run ends with another signal.
C2_ExitSignal ==
    (mode = "strict" /\ pc = "done") =>
        /\ exited /\ exit_code \in {0, 1}
        /\ api_key = "absent" => exit_code = 1
        /\ api_key = "set" =>
              /\ exit_code = 0 <=>
                    \/ files_to_check = <<>>
                    \/ \A i \in 1..Len(files_to_check) :
                          i <= Handled /\ PassesGate(i)
              /\ exit_code = 1 <=>
                    \/ \E i \in 1..Handled : FailsGate(i)
                    \/ \E i \in 1..Handled : ~GotResult(i)
              /\ (staged.lines = <<>> /\ untracked.lines = <<>>) => exit_code = 0

\* A gate that analysed two files, one of them with the lowest passing
\* score, and ended with 0.
C2_Witness ==
    /\ mode = "strict" /\ pc = "done" /\ exit_code = 0
    /\ Len(files_to_check) = 2 /\ Len(all_scores) = 2
    /\ 70 \in Range(all_scores)

\* C3: with the credential absent no version-control query, no look at the
\* file system, no read and no backend call ever happens, on either entry
\* point, and the run ends with exit signal 1.
C3_NothingBeforeCredentialHalt ==
    api_key = "absent" =>
        /\ vcs_queries = 0
        /\ \A p \in Paths : fs_kind[p] = "unknown"
        /\ reads = <<>> /\ calls = <<>>
        /\ pc \in {"start", "done"}
        /\ pc = "done" => (exited /\ exit_code = 1)

\* C4: in the strict gate, once a file has raised (its read or its backend
\* call), the run is over with exit signal 1: that file is the last one
\* opened, the files after it in the sequence were neither read nor sent to
\* the backend, no average was reported, and the verdict is not PASS.
C4_StrictFailFast ==
    (mode = "strict" /\ \E i \in 1..Len(reads) : ~GotResult(i)) =>
        /\ pc = "done" /\ exited /\ exit_code = 1
        /\ decision = "ERROR"
        /\ ~avg_reported
        /\ ~GotResult(Len(reads))
        /\ \A i \in 1..(Len(reads) - 1) : GotResult(i)
        /\ reads = SubSeq(files_to_check, 1, Len(reads))
        /\ Range(calls) \subseteq Range(reads)
        /\ Msg("error_parsing", files_to_check[Len(reads)]) \in log
        /\ Msg("all_passed", NoFile) \notin log

\* A strict run whose first file raised while a second was waiting.
C4_Witness ==
    /\ mode = "strict" /\ pc = "done"
    /\ Len(files_to_check) = 2 /\ Len(reads) = 1
    /\ backend[files_to_check[1]].kind = "backend_error"
    /\ backend[files_to_check[2]] = Unknown

\* C5: at the end of a lenient scan in which a file raised, every file of
\* the sequence was processed; the file that raised is logged and contributes
\* nothing to all_scores or total_issues; and the decision (failed) and the
\* average are those of the other files' results.
C5_LenientSkipsAndGoesOn ==
    (mode = "lenient" /\ pc = "done" /\ \E i \in 1..idx : ~GotResult(i)) =>
        /\ idx = Len(files_to_check)
        /\ \A i \in 1..idx :
              ~GotResult(i) =>
                \/ Msg("error_parsing", files_to_check[i]) \in log
                \/ Msg("file_missing", files_to_check[i]) \in log
        /\ \A i \in 1..idx : GotResult(i) => files_to_check[i] \in Range(calls)
        /\ all_scores = ScoresUpTo(idx)
        /\ total_issues = IssuesUpTo(idx)
        /\ avg_reported <=> (\E i \in 1..idx : GotResult(i))
        /\ failed <=> (\E i \in 1..idx : FailsGate(i))

\* The part of C5 that does not rest on a failed flag: the scan goes through
\* the whole sequence, logs what raised, and keeps scores, issues and average
\* of the other files only.
LenientSkipsAndGoesOn ==
    (mode = "lenient" /\ pc = "done" /\ files_to_check # <<>>) =>
        /\ idx = Len(files_to_check)
        /\ \A i \in 1..idx :
              ~GotResult(i) =>
                \/ Msg("error_parsing", files_to_check[i]) \in log
                \/ Msg("file_missing", files_to_check[i]) \in log
        /\ \A i \in 1..idx : GotResult(i) => files_to_check[i] \in Range(calls)
        /\ all_scores = ScoresUpTo(idx)
        /\ total_issues = IssuesUpTo(idx)
        /\ avg_reported <=> (\E i \in 1..idx : GotResult(i))

\* The part of C1 about the strict gate: there the flag is exact.
StrictFailedIffSomeFileFailsGate ==
    (mode = "strict" /\ pc \in {"loop", "done"}) =>
        (failed <=> \E i \in 1..Handled : FailsGate(i))

\* C6: when either version-control query failed (non-zero exit status, or
\* the command could not be launched), discovery returns no file and prints
\* a diagnostic of the failure.
C6_QueryFailureYieldsNothing ==
    (vcs_queries > 0 /\ (staged.status # "exit_0" \/ untracked.status # "exit_0")) =>
        /\ files_to_check = <<>>
        /\ Msg("error_getting_files", NoFile) \in log

\* What the filter is documented to let through for the running variant:
\* .py .ts .mjs, and for the extended one also .js .sql .css .html .ipynb.
AllowedByName(p) ==
    LET n == Spelling(p)
        l == Len(n)
        base == \/ (l >= 3 /\ SubSeq(n, l - 2, l) \in {<<".", "p", "y">>, <<".", "t", "s">>})
                \/ (l >= 4 /\ SubSeq(n, l - 3, l) = <<".", "m", "j", "s">>)
        more == \/ (l >= 3 /\ SubSeq(n, l - 2, l) = <<".", "j", "s">>)
                \/ (l >= 4 /\ SubSeq(n, l - 3, l) \in
                        {<<".", "s", "q", "l">>, <<".", "c", "s", "s">>})
                \/ (l >= 5 /\ SubSeq(n, l - 4, l) = <<".", "h", "t", "m", "l">>)
                \/ (l >= 6 /\ SubSeq(n, l - 5, l) = <<".", "i", "p", "y", "n", "b">>)
    IN  base \/ (mode = "lenient" /\ more)

\* C7: every path get_files_to_analyze returns ends with an allowed extension
\* and names an existing regular file, and every listed path that does both
\* is returned.
C7_FilterSoundAndComplete ==
    (pc # "start" /\ ~GetFilesRaises) =>
        /\ \A i \in DOMAIN files_to_check :
              /\ files_to_check[i] \in Listed
              /\ AllowedByName(files_to_check[i])
              /\ fs_kind[files_to_check[i]] = "file"
        /\ \A p \in Listed :
              (AllowedByName(p) /\ fs_kind[p] = "file") => p \in Range(files_to_check)
        /\ \A p \in Listed : AllowedByName(p) => fs_kind[p] # "unknown"

\* A discovery that kept one path and turned away one for its extension, one
\* for being a directory and one for not existing.
C7_Witness ==
    /\ pc = "loop"
    /\ Len(files_to_check) = 1
    /\ \E p \in Listed : ~AllowedByName(p)
    /\ \E p \in Listed : fs_kind[p] = "dir"
    /\ \E p \in Listed : fs_kind[p] = "missing"

\* C8: the reported average is the arithmetic mean of the scores of exactly
\* the files analysed without exception, to two decimals (within half a
\* hundredth of the exact quotient); it is reported whenever the loop ended
\* with at least one score, and never when there is none.
C8_AverageIsMean ==
    pc = "done" =>
        /\ all_scores = ScoresUpTo(Handled)
        /\ avg_reported =>
              LET n == Len(ScoresUpTo(Handled))
                  d == avg_score * n - 100 * Sum(ScoresUpTo(Handled))
              IN  /\ n > 0
                  /\ 2 * d <= n /\ 2 * d >= 0 - n
        /\ all_scores = <<>> => ~avg_reported
        /\ (all_scores # <<>> /\ decision \in {"PASS", "FAIL", "SCANNED"})
              => avg_reported
        /\ (avg_reported /\ all_scores = <<85>>) => avg_score = 8500
        /\ (avg_reported /\ all_scores = <<60, 90>>) => avg_score = 7500

\* Scores [60, 90] reported as 75.00 by a scan in which another file raised.
C8_Witness ==
    /\ pc = "done" /\ avg_reported
    /\ all_scores = <<60, 90>> /\ avg_score = 7500
    /\ Len(files_to_check) = 3

\* C9: a run against the unchanged tree and backend ends as the run before
\* it did: the same verdict and the same exit signal, whatever the order in
\* which either run iterated over the discovered paths.
C9_SameOutcomeOnRerun ==
    (pc = "done" /\ prev.known) =>
        /\ decision = prev.decision
        /\ exited = prev.exited
        /\ exit_code = prev.exit_code

\* A second strict run that met a failing file before the raising one, after
\* a first run that can only have met the raising one first or second.
C9_Witness ==
    /\ pc = "done" /\ prev.known /\ mode = "strict"
    /\ Len(files_to_check) = 2
    /\ decision = "ERROR"
    /\ failed

\* C10: the sequence discovery returns holds no path twice, also when a path
\* is listed by both queries or several times by one.
C10_NoDuplicatePaths ==
    pc # "start" => NoRepeats(files_to_check)

\* A path listed twice by one query and once more by the other, returned.
C10_Witness ==
    /\ pc = "loop"
    /\ \E p \in Range(files_to_check) :
          /\ Len(staged.lines) = 2 /\ staged.lines[1] = p /\ staged.lines[2] = p
          /\ p \in Range(untracked.lines)

====
